---- MODULE Spec2Model ----
(***************************************************************************)
(* Model of fs/wildcard.py: the pattern tokenizer (PatternMatcher.__init__),*)
(* the backtracking matcher (PatternMatcher._match and                      *)
(* _PatternMatcherToken.match), the module-level pattern cache and the      *)
(* query functions match, imatch, match_any, imatch_any and get_matcher.    *)
(*                                                                          *)
(* A text (pattern, name, token string) is a sequence of one-character      *)
(* strings.  Python's 0-based index i is kept as in the source; the         *)
(* character pattern[i] is p[i + 1] here.                                   *)
(***************************************************************************)
EXTENDS Integers, Sequences, FiniteSets, TLC

VARIABLES
    pm,          \* the PatternMatcher under construction / constructed
    pm_text,     \* the argument of the last PatternMatcher.__call__
    pm_result,   \* its result
    tk_pattern,  \* tokenizer loop of __init__, one iteration per step:
    tk_i,        \*   the cursor i
    tk_tokens,   \*   self.tokens
    tk_pc,       \*   "idle" | "scan" | "done" | "raised"
    cache,       \* _PATTERN_CACHE, least recently used entry first
    call,        \* the last call of the query API and its outcome
    th           \* the threads calling match / imatch concurrently

vars == <<pm, pm_text, pm_result, tk_pattern, tk_i, tk_tokens, tk_pc, cache, call, th>>

-----------------------------------------------------------------------------
(* Bounds of the model.                                                     *)

MaxPieces == 2
MaxNameLen == 3
MaxCompileLen == 5
MaxListLen == 2
CacheCapacity == 2

-----------------------------------------------------------------------------
(* Texts.                                                                   *)

\* The letters of the model's alphabet are "a" and "A"; "x" stands for any
\* character that occurs in no pattern.
Lower(c) == IF c = "A" THEN "a" ELSE c

LowerText(s) == [k \in 1..Len(s) |-> Lower(s[k])]

\* Python's s[a:b] for 0 <= a and 0 <= b (empty when b <= a).
Slice(s, a, b) == SubSeq(s, a + 1, IF b > Len(s) THEN Len(s) ELSE b)

\* Python's s.find(ch, from): the least 0-based index >= from holding ch, else -1.
Find(s, ch, from) ==
    LET hits == {k \in from..(Len(s) - 1) : s[k + 1] = ch}
    IN  IF hits = {} THEN -1 ELSE CHOOSE k \in hits : \A h \in hits : k <= h

\* All texts over the characters C of length at most n.
Texts(C, n) == UNION {[1..k -> C] : k \in 0..n}

RECURSIVE Concats(_, _)
\* All concatenations of at most n of the texts in P.
Concats(P, n) ==
    IF n = 0 THEN {<<>>}
    ELSE LET shorter == Concats(P, n - 1)
         IN  shorter \cup {s \o q : s \in shorter, q \in P}

-----------------------------------------------------------------------------
(* PatternMatcher.__init__: the tokenizer.                                  *)

RECURSIVE AsterikLen(_, _, _)
\* The inner while loop of the "*" branch, entered with asterik_len = n.
AsterikLen(p, i, n) ==
    IF (n + i) < Len(p) /\ p[n + i + 1] = "*" THEN AsterikLen(p, i, n + 1) ELSE n

Stars(n) == [k \in 1..n |-> "*"]

ScanStep_StarRunOfThreeAllowed(p, i) ==
    LET c == p[i + 1] IN
    IF c = "["
      THEN LET j == Find(p, "]", i) + 1
           IN  [raised |-> FALSE, i |-> j, token |-> Slice(p, i, j)]
    ELSE IF c = "]"
      THEN [raised |-> TRUE, i |-> i, token |-> <<>>]
    ELSE IF c = "?"
      THEN [raised |-> FALSE, i |-> i + 1, token |-> <<"?">>]
    ELSE IF c = "*"
      THEN LET n == AsterikLen(p, i, 1)
           IN  IF n > 3
                 THEN [raised |-> TRUE, i |-> i, token |-> <<>>]
                 ELSE [raised |-> FALSE, i |-> i + n, token |-> Stars(n)]
    ELSE [raised |-> FALSE, i |-> i + 1, token |-> <<c>>]

\* One iteration of the while loop at cursor i < len(pattern): either the
\* ValueError is raised, or one token is appended and the cursor is set.
ScanStep(p, i) ==
    LET c == p[i + 1] IN
    IF c = "["
      THEN LET j == Find(p, "]", i) + 1
           IN  [raised |-> FALSE, i |-> j, token |-> Slice(p, i, j)]
    ELSE IF c = "]"
      THEN [raised |-> TRUE, i |-> i, token |-> <<>>]
    ELSE IF c = "?"
      THEN [raised |-> FALSE, i |-> i + 1, token |-> <<"?">>]
    ELSE IF c = "*"
      THEN LET n == AsterikLen(p, i, 1)
           IN  IF n > 2
                 THEN [raised |-> TRUE, i |-> i, token |-> <<>>]
                 ELSE [raised |-> FALSE, i |-> i + n, token |-> Stars(n)]
    ELSE [raised |-> FALSE, i |-> i + 1, token |-> <<c>>]

RECURSIVE Scan(_, _, _)
\* The whole loop from cursor i with self.tokens = tokens.  The next cursor
\* is a function of (pattern, i) alone, so a step that does not advance the
\* cursor returns the loop to a cursor it has already left and the loop
\* never ends: the constructor does not return ("diverges").
Scan(p, i, tokens) ==
    IF i >= Len(p) THEN [status |-> "ok", tokens |-> tokens]
    ELSE LET s == ScanStep(p, i) IN
         IF s.raised THEN [status |-> "ValueError", tokens |-> <<>>]
         ELSE IF s.i <= i THEN [status |-> "diverges", tokens |-> <<>>]
         ELSE Scan(p, s.i, Append(tokens, s.token))

Tokenize(p) == Scan(p, 0, <<>>)

\* PatternMatcher(pattern, case_sensitive, accept_prefixes)
PatternMatcher(p, cs, ap) ==
    LET t == Tokenize(p)
    IN  [pattern |-> p, case_sensitive |-> cs, accept_prefixes |-> ap,
         status |-> t.status, tokens |-> t.tokens]

-----------------------------------------------------------------------------
(* _PatternMatcherToken.match and PatternMatcher._match.                    *)

IndexError == -1

TokenMatch_StarCrossesSeparator(token_str, character, case_sensitive) ==
    IF Len(token_str) = 0 THEN IndexError
    ELSE IF token_str[1] = "["
      THEN IF Len(token_str) < 2 THEN IndexError
           ELSE IF token_str[2] = "!"
             THEN LET matches == SubSeq(token_str, 3, Len(token_str) - 1)
                  IN  IF \E k \in 1..Len(matches) : matches[k] = character THEN 0 ELSE 1
             ELSE LET matches == SubSeq(token_str, 2, Len(token_str) - 1)
                  IN  IF \E k \in 1..Len(matches) : matches[k] = character THEN 1 ELSE 0
    ELSE IF token_str = <<"?">> THEN 1
    ELSE IF token_str = <<"*">> THEN 2
    ELSE IF token_str = <<"*", "*">> THEN 2
    ELSE IF case_sensitive
      THEN IF token_str = <<character>> THEN 1 ELSE 0
      ELSE IF LowerText(token_str) = <<Lower(character)>> THEN 1 ELSE 0

\* token.match(character, case_sensitive): 0 no match, 1 one character,
\* 2 an open run; IndexError where token_str[0] or token_str[1] does not exist.
TokenMatch(token_str, character, case_sensitive) ==
    IF Len(token_str) = 0 THEN IndexError
    ELSE IF token_str[1] = "["
      THEN IF Len(token_str) < 2 THEN IndexError
           ELSE IF token_str[2] = "!"
             THEN LET matches == SubSeq(token_str, 3, Len(token_str) - 1)
                  IN  IF \E k \in 1..Len(matches) : matches[k] = character THEN 0 ELSE 1
             ELSE LET matches == SubSeq(token_str, 2, Len(token_str) - 1)
                  IN  IF \E k \in 1..Len(matches) : matches[k] = character THEN 1 ELSE 0
    ELSE IF token_str = <<"?">> THEN 1
    ELSE IF token_str = <<"*">> THEN (IF character # "/" THEN 2 ELSE 0)
    ELSE IF token_str = <<"*", "*">> THEN 2
    ELSE IF case_sensitive
      THEN IF token_str = <<character>> THEN 1 ELSE 0
      ELSE IF LowerText(token_str) = <<Lower(character)>> THEN 1 ELSE 0

Bool(b) == IF b THEN "True" ELSE "False"

RECURSIVE MatchTokens_PrefixAfterEnd(_, _, _, _)
MatchTokens_PrefixAfterEnd(tokens, text, cs, ap) ==
    IF tokens = <<>> THEN Bool(text = <<>> \/ ap)
    ELSE IF text = <<>> THEN Bool(ap)
    ELSE LET match_count == TokenMatch(Head(tokens), Head(text), cs) IN
         IF match_count = IndexError THEN "IndexError"
         ELSE IF match_count = 0 THEN "False"
         ELSE IF match_count = 1 THEN MatchTokens_PrefixAfterEnd(Tail(tokens), Tail(text), cs, ap)
         ELSE LET first == MatchTokens_PrefixAfterEnd(Tail(tokens), Tail(text), cs, ap)
              IN  IF first # "False" THEN first
                  ELSE MatchTokens_PrefixAfterEnd(tokens, Tail(text), cs, ap)

RECURSIVE MatchTokens(_, _, _, _)
\* self._match(tokens, text) of a matcher with the flags cs and ap:
\* "True", "False", or "IndexError" when a token test raises.
MatchTokens(tokens, text, cs, ap) ==
    IF tokens = <<>> THEN Bool(text = <<>>)
    ELSE IF text = <<>> THEN Bool(ap)
    ELSE LET match_count == TokenMatch(Head(tokens), Head(text), cs) IN
         IF match_count = IndexError THEN "IndexError"
         ELSE IF match_count = 0 THEN "False"
         ELSE IF match_count = 1 THEN MatchTokens(Tail(tokens), Tail(text), cs, ap)
         ELSE LET first == MatchTokens(Tail(tokens), Tail(text), cs, ap)
              IN  IF first # "False" THEN first
                  ELSE MatchTokens(tokens, Tail(text), cs, ap)

\* PatternMatcher.__call__(text) of a constructed matcher m.
CallMatcher(m, text) ==
    MatchTokens(m.tokens, text, m.case_sensitive, m.accept_prefixes)

\* What a fresh PatternMatcher(p, cs, ap)(name) gives the caller: the
\* constructor's ValueError, no return at all, or the matcher's answer.
FreshResult(p, cs, ap, name) ==
    LET m == PatternMatcher(p, cs, ap)
    IN  IF m.status = "ok" THEN CallMatcher(m, name) ELSE m.status

-----------------------------------------------------------------------------
(* Inputs.                                                                  *)

NameChar == {"a", "A", "/"}
Names == Texts(NameChar, MaxNameLen)

Pieces ==
    { <<"a">>, <<"/">>, <<"?">>, <<"*">>, <<"[", "a", "]">>,
      <<"[", "!", "a", "]">>, <<"[", "]">>, <<"]">>, <<"[">> }
Patterns == Concats(Pieces, MaxPieces)

\* Inputs of the tokenizer alone: every text over the characters it tells
\* apart, and a few names to call the compiled matcher with.
CompileChar == {"a", "*", "[", "]", "!"}
CompilePatterns == Texts(CompileChar, MaxCompileLen)
CompileNames == Texts({"a", "*"}, 2)

\* A loop that never ends appends a token per round; the model stops it here,
\* beyond the tokens of any pattern whose scan ends.
MaxTokens == MaxCompileLen + 2

NoMatcher ==
    [pattern |-> <<>>, case_sensitive |-> TRUE, accept_prefixes |-> FALSE,
     status |-> "none", tokens |-> <<>>]
NoCall == [op |-> "none", result |-> "none"]

InitCommon ==
    /\ pm = NoMatcher /\ pm_text = <<>> /\ pm_result = "none"
    /\ tk_pattern = <<>> /\ tk_i = 0 /\ tk_tokens = <<>> /\ tk_pc = "idle"
    /\ cache = <<>>
    /\ call = NoCall
    /\ th = <<>>

-----------------------------------------------------------------------------
(* SpecMatcher: a PatternMatcher is constructed and called.                 *)

\* pat = PatternMatcher(p, cs, ap)
New(p, cs, ap) ==
    /\ pm' = PatternMatcher(p, cs, ap)
    /\ UNCHANGED <<pm_text, pm_result, tk_pattern, tk_i, tk_tokens, tk_pc, cache, call, th>>

\* pat(text)
Call(text) ==
    /\ pm_text' = text
    /\ pm_result' = CallMatcher(pm, text)
    /\ UNCHANGED <<pm, tk_pattern, tk_i, tk_tokens, tk_pc, cache, call, th>>

\* A behaviour constructs one matcher and calls it once: the matcher keeps
\* no state between calls, so one call shows all it can do.
NotConstructed == pm.status = "none"
NotCalled == pm.status = "ok" /\ pm_result = "none"

Construct ==
    NotConstructed /\ \E p \in Patterns, cs \in BOOLEAN, ap \in BOOLEAN : New(p, cs, ap)

CallOnce == NotCalled /\ \E text \in Names : Call(text)

NextMatcher == Construct \/ CallOnce

SpecMatcher == InitCommon /\ [][NextMatcher]_vars

Called == pm.status = "ok" /\ pm_result # "none"

Count(s, ch) == Cardinality({k \in 1..Len(s) : s[k] = ch})

-----------------------------------------------------------------------------
(* C1: the segment semantics of a pattern.                                  *)

IsClass(token_str) == Len(token_str) >= 2 /\ token_str[1] = "["
ClassNegated(token_str) == Len(token_str) >= 3 /\ token_str[2] = "!"
ClassSet(token_str) ==
    IF ClassNegated(token_str)
      THEN {token_str[k] : k \in 3..(Len(token_str) - 1)}
      ELSE {token_str[k] : k \in 2..(Len(token_str) - 1)}

\* The segment seg is one the token may get.
SegmentOf(token_str, seg) ==
    IF token_str = <<"*">> THEN \A k \in 1..Len(seg) : seg[k] # "/"
    ELSE IF token_str = <<"*", "*">> THEN TRUE
    ELSE IF token_str = <<"?">> THEN Len(seg) = 1
    ELSE IF IsClass(token_str)
      THEN Len(seg) = 1 /\ ((seg[1] \in ClassSet(token_str)) # ClassNegated(token_str))
    ELSE seg = token_str

RECURSIVE Splits(_, _)
\* text splits into consecutive segments, one per token in order.
Splits(tokens, text) ==
    IF tokens = <<>> THEN text = <<>>
    ELSE \E k \in 0..Len(text) :
            /\ SegmentOf(Head(tokens), SubSeq(text, 1, k))
            /\ Splits(Tail(tokens), SubSeq(text, k + 1, Len(text)))

\* C1: for a compiled pattern, match(pattern, name) without prefix mode is
\* true exactly when the name splits into one segment per token, where `*`
\* and `**` may get the empty segment.
C1_SegmentSemantics ==
    (Called /\ pm.case_sensitive /\ ~pm.accept_prefixes)
        => (pm_result = Bool(Splits(pm.tokens, pm_text)))

-----------------------------------------------------------------------------
(* C2: `*` stops at a path separator, `**` does not.                        *)

\* p is made of literal characters and single `*` tokens only.
LiteralStarOnly(p) ==
    /\ \A k \in 1..Len(p) : p[k] \notin {"?", "[", "]"}
    /\ \A k \in 1..(Len(p) - 1) : ~(p[k] = "*" /\ p[k + 1] = "*")

\* p with the `*` at position k made a `**`.
Doubled(p, k) == SubSeq(p, 1, k) \o <<"*">> \o SubSeq(p, k + 1, Len(p))

\* A name in which the wildcard at position k spans a "/": every literal
\* stands for itself, the wildcard at k gets "/", every other `*` gets "a".
Spanning(p, k) ==
    [j \in 1..Len(p) |-> IF j = k THEN "/" ELSE IF p[j] = "*" THEN "a" ELSE p[j]]

\* C2: a name matched by a pattern of literals and single `*` has exactly
\* the pattern's number of "/"; with one `*` replaced by `**` the pattern
\* matches a name in which that wildcard spans a "/", which the single `*`
\* does not match.
C2_StarStopsAtSeparator ==
    (pm.status = "ok" /\ ~pm.accept_prefixes /\ LiteralStarOnly(pm.pattern)) =>
        /\ (pm_result = "True") => (Count(pm_text, "/") = Count(pm.pattern, "/"))
        /\ \A k \in 1..Len(pm.pattern) : (pm.pattern[k] = "*") =>
              /\ FreshResult(Doubled(pm.pattern, k), pm.case_sensitive, FALSE,
                             Spanning(pm.pattern, k)) = "True"
              /\ FreshResult(pm.pattern, pm.case_sensitive, FALSE,
                             Spanning(pm.pattern, k)) = "False"

\* A pattern with a literal "/" and a `*` has matched a name.
C2_Witness ==
    /\ Called /\ ~pm.accept_prefixes /\ LiteralStarOnly(pm.pattern)
    /\ Count(pm.pattern, "*") = 1 /\ Count(pm.pattern, "/") = 1
    /\ pm_result = "True"

-----------------------------------------------------------------------------
(* C3: prefix acceptance.                                                   *)

\* The characters an extension may need: the literals and the class members
\* of the tokens, and "x" for every other character (all of them fare alike).
TokenChars(token_str) ==
    IF IsClass(token_str) THEN ClassSet(token_str)
    ELSE IF token_str \in {<<"?">>, <<"*">>, <<"*", "*">>} THEN {}
    ELSE {token_str[k] : k \in 1..Len(token_str)}

ExtChar(tokens) == {"x"} \cup UNION {TokenChars(tokens[k]) : k \in 1..Len(tokens)}

\* text can be extended, by appending characters, to a perfect match.  A
\* perfect match gives every token at most one appended character more than
\* it needs, so Len(tokens) appended characters are enough.
Extendable(tokens, text, cs) ==
    \E e \in Texts(ExtChar(tokens), Len(tokens)) :
        MatchTokens(tokens, text \o e, cs, FALSE) = "True"

\* text is a perfect match of a leading run of the tokens.
MatchesLeadingTokens(tokens, text, cs) ==
    \E m \in 0..Len(tokens) :
        MatchTokens(SubSeq(tokens, 1, m), text, cs, FALSE) = "True"

HasEmptyClass(tokens) == \E k \in 1..Len(tokens) : tokens[k] = <<"[", "]">>

\* C3 as stated: with accept_prefix=True a name is accepted exactly when it
\* is a perfect match or can be extended to one.
C3_PrefixIffExtendable ==
    (Called /\ pm.accept_prefixes) =>
        ((pm_result = "True") <=> Extendable(pm.tokens, pm_text, pm.case_sensitive))

\* C3 amended: with accept_prefix=True a name is accepted exactly when it is
\* a perfect match of the pattern or of a leading run of its tokens; every
\* name that can be extended to a perfect match is accepted, and for a
\* pattern without an empty class `[]` the accepted names are exactly those.
C3_PrefixAcceptance ==
    (Called /\ pm.accept_prefixes) =>
        LET extendable == Extendable(pm.tokens, pm_text, pm.case_sensitive) IN
        /\ (pm_result = "True")
              <=> MatchesLeadingTokens(pm.tokens, pm_text, pm.case_sensitive)
        /\ IF HasEmptyClass(pm.tokens)
             THEN extendable => (pm_result = "True")
             ELSE (pm_result = "True") <=> extendable

\* A strict prefix is accepted in prefix mode and is not a perfect match.
C3_Witness ==
    /\ Called /\ pm.accept_prefixes /\ pm_result = "True"
    /\ ~HasEmptyClass(pm.tokens)
    /\ pm_text # <<>>
    /\ MatchTokens(pm.tokens, pm_text, pm.case_sensitive, FALSE) = "False"

-----------------------------------------------------------------------------
(* C4: case-insensitive matching.                                           *)

Flip(c) == IF c = "a" THEN "A" ELSE IF c = "A" THEN "a" ELSE c
FlipAt(s, k) == [j \in 1..Len(s) |-> IF j = k THEN Flip(s[j]) ELSE s[j]]

\* C4: the result of a case-insensitive matcher is unchanged when the case
\* of one letter of the name, or of one letter of the pattern (a literal or
\* a member of a class), is flipped.
C4_CaseFlipInvariant ==
    (Called /\ ~pm.case_sensitive) =>
        /\ \A k \in 1..Len(pm_text) :
              FreshResult(pm.pattern, FALSE, pm.accept_prefixes, FlipAt(pm_text, k))
                  = pm_result
        /\ \A k \in 1..Len(pm.pattern) :
              FreshResult(FlipAt(pm.pattern, k), FALSE, pm.accept_prefixes, pm_text)
                  = pm_result

-----------------------------------------------------------------------------
(* SpecCompile: the tokenizer on every short text, then a call.             *)

Compile == NotConstructed /\ \E p \in CompilePatterns : New(p, TRUE, FALSE)

CallCompiled == NotCalled /\ \E text \in CompileNames : Call(text)

NextCompile == Compile \/ CallCompiled

SpecCompile == InitCommon /\ [][NextCompile]_vars

RECURSIVE InsideClass(_, _)
\* Position k (1-based) of p lies in a class: the nearest bracket before it
\* that is not itself a class member is a `[`.  (A class runs from its `[`
\* to the next `]`, so a `[` in a class opens nothing.)
InsideClass(p, k) ==
    IF k = 1 THEN FALSE
    ELSE IF InsideClass(p, k - 1) THEN p[k - 1] # "]"
    ELSE p[k - 1] = "["

OpensClass(p, j) == p[j] = "[" /\ ~InsideClass(p, j)

\* Three consecutive `*` start at position k.
TripleStarAt(p, k) ==
    k + 2 <= Len(p) /\ p[k] = "*" /\ p[k + 1] = "*" /\ p[k + 2] = "*"

HasTripleStar(p) == \E k \in 1..Len(p) : TripleStarAt(p, k)

\* A `]` with no preceding unmatched `[`.
HasUnmatchedClose(p) == \E k \in 1..Len(p) : p[k] = "]" /\ ~InsideClass(p, k)

\* Every `[` that opens a class has a later `]`.
AllBracketsClosed(p) ==
    \A j \in 1..Len(p) : OpensClass(p, j) => \E m \in (j + 1)..Len(p) : p[m] = "]"

NoMatchTimeError == pm_result \in {"none", "True", "False"}

\* C6 as stated, on the patterns whose brackets are all closed: an unmatched
\* `]` or a run of three or more `*` anywhere makes the compilation fail,
\* a pattern with neither compiles, and matching raises nothing.
C6_ErrorOnAnyTripleStar ==
    (pm.status # "none" /\ AllBracketsClosed(pm.pattern)) =>
        /\ (HasUnmatchedClose(pm.pattern) \/ HasTripleStar(pm.pattern))
              => (pm.status = "ValueError")
        /\ (~HasUnmatchedClose(pm.pattern) /\ ~HasTripleStar(pm.pattern))
              => (pm.status = "ok")
        /\ NoMatchTimeError

\* C6 amended: the compilation fails exactly when a `]`, or a run of three
\* or more `*`, stands outside every class (a class runs from its `[` to the
\* next `]`; what stands in it, `[***]` say, is a member and no error); a
\* pattern with all brackets closed, no unmatched `]` and star runs of one
\* or two compiles; and matching a name raises nothing.
C6_ErrorOutsideClass ==
    (pm.status # "none") =>
        /\ (pm.status = "ValueError")
              <=> \E k \in 1..Len(pm.pattern) :
                     /\ ~InsideClass(pm.pattern, k)
                     /\ (pm.pattern[k] = "]" \/ TripleStarAt(pm.pattern, k))
        /\ (AllBracketsClosed(pm.pattern) /\ ~HasUnmatchedClose(pm.pattern)
               /\ ~HasTripleStar(pm.pattern)) => (pm.status = "ok")
        /\ NoMatchTimeError

\* A pattern with three `*` in a class has compiled and has been called.
C6_Witness ==
    /\ Called /\ HasTripleStar(pm.pattern) /\ pm_text # <<>>

-----------------------------------------------------------------------------
(* SpecTokenize: the tokenizer loop, one iteration per step.                *)

\* PatternMatcher.__init__ is entered: self.tokens = [], i = 0.
TkStart(p) ==
    /\ tk_pattern' = p /\ tk_i' = 0 /\ tk_tokens' = <<>> /\ tk_pc' = "scan"
    /\ UNCHANGED <<pm, pm_text, pm_result, cache, call, th>>

\* One iteration of `while i < len(pattern)`.
TkStep ==
    /\ tk_pc = "scan" /\ tk_i < Len(tk_pattern)
    /\ Len(tk_tokens) < MaxTokens
    /\ LET s == ScanStep(tk_pattern, tk_i) IN
         IF s.raised
           THEN tk_pc' = "raised" /\ UNCHANGED <<tk_i, tk_tokens>>
           ELSE tk_i' = s.i /\ tk_tokens' = Append(tk_tokens, s.token)
                /\ UNCHANGED tk_pc
    /\ UNCHANGED <<tk_pattern, pm, pm_text, pm_result, cache, call, th>>

\* The loop condition fails: __init__ returns.
TkDone ==
    /\ tk_pc = "scan" /\ tk_i >= Len(tk_pattern)
    /\ tk_pc' = "done"
    /\ UNCHANGED <<tk_pattern, tk_i, tk_tokens, pm, pm_text, pm_result, cache, call, th>>

TkEnter == tk_pc = "idle" /\ \E p \in CompilePatterns : TkStart(p)

NextTokenize == TkEnter \/ TkStep \/ TkDone

SpecTokenize == InitCommon /\ [][NextTokenize]_vars

\* The cursor stands on a `[` with no later `]`.
AtUnclosedBracket ==
    /\ tk_pc = "scan" /\ tk_i < Len(tk_pattern)
    /\ tk_pattern[tk_i + 1] = "["
    /\ \A m \in (tk_i + 2)..Len(tk_pattern) : tk_pattern[m] # "]"

\* C8: compiling terminates: every iteration that does not raise moves the
\* cursor forward; at a `[` with no later `]` the iteration raises nothing,
\* emits one class token holding the rest of the pattern and puts the
\* cursor at the end of the pattern.
C8_CompileTerminates ==
    [][ (tk_pc = "scan" /\ tk_i < Len(tk_pattern)) =>
           /\ AtUnclosedBracket =>
                 /\ tk_pc' = "scan"
                 /\ tk_i' = Len(tk_pattern)
                 /\ tk_tokens' = Append(tk_tokens,
                                        SubSeq(tk_pattern, tk_i + 1, Len(tk_pattern)))
           /\ (tk_pc' = "scan") => (tk_i' > tk_i) ]_vars

-----------------------------------------------------------------------------
(* _PATTERN_CACHE = LRUCache(CacheCapacity).  The cache is a sequence of    *)
(* entries [key, pat], the least recently used first.                       *)

KeyIndex(c, key) ==
    IF \E k \in 1..Len(c) : c[k].key = key
      THEN CHOOSE k \in 1..Len(c) : c[k].key = key
      ELSE 0

Without(c, k) == SubSeq(c, 1, k - 1) \o SubSeq(c, k + 1, Len(c))

\* _PATTERN_CACHE[key]: a hit promotes the entry to most recently used and
\* gives its matcher; a miss (KeyError) leaves the cache as it is.
CacheGetItem(c, key) ==
    LET k == KeyIndex(c, key) IN
    IF k = 0 THEN [hit |-> FALSE, pat |-> <<>>, cache |-> c]
    ELSE [hit |-> TRUE, pat |-> c[k].pat, cache |-> Append(Without(c, k), c[k])]

\* _PATTERN_CACHE[key] = pat: the entry becomes the most recently used; over
\* capacity, the least recently used entry is evicted.
CacheSetItem(c, key, pat) ==
    LET k == KeyIndex(c, key)
        rest == IF k = 0 THEN c ELSE Without(c, k)
        put == Append(rest, [key |-> key, pat |-> pat])
    IN  IF Len(put) > CacheCapacity THEN Tail(put) ELSE put

-----------------------------------------------------------------------------
(* match, imatch, match_any, imatch_any, get_matcher.                       *)

\* args = (pattern, True, accept_prefix)
MatchArgs(pattern, accept_prefix) == <<pattern, TRUE, accept_prefix>>

IMatchArgs_CaseSensitiveKey(pattern, accept_prefix) == <<pattern, TRUE, accept_prefix>>

\* args = (pattern, False, accept_prefix)
IMatchArgs(pattern, accept_prefix) == <<pattern, FALSE, accept_prefix>>

Query_InsertsBeforeRaise(c, args, name) ==
    LET got == CacheGetItem(c, args) IN
    IF got.hit
      THEN [cache |-> got.cache, result |-> CallMatcher(got.pat, name), hit |-> TRUE]
      ELSE LET pat == PatternMatcher(args[1], args[2], args[3]) IN
           IF pat.status = "ok"
             THEN [cache |-> CacheSetItem(c, args, pat),
                   result |-> CallMatcher(pat, name), hit |-> FALSE]
             ELSE [cache |-> CacheSetItem(c, args, pat), result |-> pat.status,
                   hit |-> FALSE]

\* The body shared by match and imatch: the try / except KeyError around the
\* cache, then pat(name).  A constructor that raises or does not return
\* leaves before the insertion.
Query(c, args, name) ==
    LET got == CacheGetItem(c, args) IN
    IF got.hit
      THEN [cache |-> got.cache, result |-> CallMatcher(got.pat, name), hit |-> TRUE]
      ELSE LET pat == PatternMatcher(args[1], args[2], args[3]) IN
           IF pat.status = "ok"
             THEN [cache |-> CacheSetItem(c, args, pat),
                   result |-> CallMatcher(pat, name), hit |-> FALSE]
             ELSE [cache |-> c, result |-> pat.status, hit |-> FALSE]

ArgsOf(cs, pattern, accept_prefix) ==
    IF cs THEN MatchArgs(pattern, accept_prefix) ELSE IMatchArgs(pattern, accept_prefix)

RECURSIVE AnyFrom_FirstPatternOnly(_, _, _, _, _, _)
AnyFrom_FirstPatternOnly(c, patterns, k, name, cs, accept_prefix) ==
    IF k > Len(patterns) THEN [cache |-> c, result |-> "False"]
    ELSE LET q == Query(c, ArgsOf(cs, patterns[k], accept_prefix), name)
         IN  [cache |-> q.cache, result |-> q.result]

RECURSIVE AnyFrom(_, _, _, _, _, _)
\* any(match(pattern, name, accept_prefix) for pattern in patterns), from
\* the k-th pattern on: the first pattern that matches ends it with True,
\* and so does one whose compilation raises or does not return.
AnyFrom(c, patterns, k, name, cs, accept_prefix) ==
    IF k > Len(patterns) THEN [cache |-> c, result |-> "False"]
    ELSE LET q == Query(c, ArgsOf(cs, patterns[k], accept_prefix), name)
         IN  IF q.result # "False"
               THEN [cache |-> q.cache, result |-> q.result]
               ELSE AnyFrom(q.cache, patterns, k + 1, name, cs, accept_prefix)

MatchAnyOf(c, patterns, name, accept_prefix) ==
    IF patterns = <<>> THEN [cache |-> c, result |-> "True"]
    ELSE AnyFrom(c, patterns, 1, name, TRUE, accept_prefix)

IMatchAnyOf(c, patterns, name, accept_prefix) ==
    IF patterns = <<>> THEN [cache |-> c, result |-> "True"]
    ELSE AnyFrom(c, patterns, 1, name, FALSE, accept_prefix)

\* get_matcher(patterns, case_sensitive, accept_prefix)(name)
MatcherOf(c, patterns, case_sensitive, accept_prefix, name) ==
    IF patterns = <<>> THEN [cache |-> c, result |-> "True"]
    ELSE IF case_sensitive THEN MatchAnyOf(c, patterns, name, accept_prefix)
    ELSE IMatchAnyOf(c, patterns, name, accept_prefix)

-----------------------------------------------------------------------------
(* Spec: match and imatch through the cache.                                *)

QueryPatterns == { <<"a">>, <<"a", "*">>, <<"]">>, <<"[">> }
QueryNames == { <<"A">>, <<"a", "a">> }

\* A call that does not return ends the behaviour of the one thread.
Returned == call.result # "diverges"

\* match(pattern, name, accept_prefix)
Match(pattern, name, accept_prefix) ==
    /\ Returned
    /\ LET q == Query(cache, MatchArgs(pattern, accept_prefix), name) IN
         /\ cache' = q.cache
         /\ call' = [op |-> "match", pattern |-> pattern, name |-> name,
                     accept_prefix |-> accept_prefix, result |-> q.result,
                     hit |-> q.hit]
    /\ UNCHANGED <<pm, pm_text, pm_result, tk_pattern, tk_i, tk_tokens, tk_pc, th>>

\* imatch(pattern, name, accept_prefix)
IMatch(pattern, name, accept_prefix) ==
    /\ Returned
    /\ LET q == Query(cache, IMatchArgs(pattern, accept_prefix), name) IN
         /\ cache' = q.cache
         /\ call' = [op |-> "imatch", pattern |-> pattern, name |-> name,
                     accept_prefix |-> accept_prefix, result |-> q.result,
                     hit |-> q.hit]
    /\ UNCHANGED <<pm, pm_text, pm_result, tk_pattern, tk_i, tk_tokens, tk_pc, th>>

Next ==
    \/ \E p \in QueryPatterns, n \in QueryNames, ap \in BOOLEAN : Match(p, n, ap)
    \/ \E p \in QueryPatterns, n \in QueryNames, ap \in BOOLEAN : IMatch(p, n, ap)

Spec == InitCommon /\ [][Next]_vars

IsQuery == call.op \in {"match", "imatch"}

\* C7: the cache is transparent: a call returns what a freshly compiled
\* matcher for its pattern and flags returns for its name, whatever calls
\* came before; every entry holds the matcher compiled from its own key, and
\* no two entries share a key.
C7_CacheTransparent ==
    /\ IsQuery =>
          call.result = FreshResult(call.pattern, call.op = "match",
                                    call.accept_prefix, call.name)
    /\ \A k \in 1..Len(cache) :
          /\ cache[k].pat = PatternMatcher(cache[k].key[1], cache[k].key[2],
                                           cache[k].key[3])
          /\ cache[k].pat.pattern = cache[k].key[1]
          /\ cache[k].pat.case_sensitive = cache[k].key[2]
          /\ cache[k].pat.accept_prefixes = cache[k].key[3]
    /\ \A j, k \in 1..Len(cache) : (cache[j].key = cache[k].key) => (j = k)

\* An imatch call is answered from the cache while the cache also holds the
\* match entry of the same pattern text, and the two answers differ.
C7_Witness ==
    /\ call.op = "imatch" /\ call.hit /\ call.result = "True"
    /\ KeyIndex(cache, MatchArgs(call.pattern, call.accept_prefix)) # 0
    /\ FreshResult(call.pattern, TRUE, call.accept_prefix, call.name) = "False"

\* C10: a call whose pattern is invalid raises and leaves the cache (keys,
\* matchers, order) as it was; no entry is ever stored for such a pattern,
\* so every later call with it raises again.
C10_FailedCallLeavesCache ==
    /\ [](/\ IsQuery =>
               ((Tokenize(call.pattern).status = "ValueError")
                    <=> (call.result = "ValueError"))
          /\ \A k \in 1..Len(cache) :
               Tokenize(cache[k].key[1]).status # "ValueError")
    /\ [][(IsQuery' /\ call'.result = "ValueError") => (cache' = cache)]_vars

\* An invalid pattern is rejected again although the cache is full.
C10_Witness ==
    /\ IsQuery /\ call.result = "ValueError"
    /\ Len(cache) = CacheCapacity

-----------------------------------------------------------------------------
(* SpecAny: match_any, imatch_any and get_matcher, from any cache the calls *)
(* of Spec can leave.                                                       *)

Injective(f) == \A j, k \in DOMAIN f : (f[j] = f[k]) => (j = k)

\* The keys of the patterns that compile.
QueryKeys ==
    {<<p, cs, ap>> : p \in {q \in QueryPatterns : Tokenize(q).status = "ok"},
                     cs \in BOOLEAN, ap \in BOOLEAN}

\* The caches reachable by match and imatch calls: up to CacheCapacity
\* distinct keys in any order, each with the matcher compiled from it.
WarmCaches ==
    {[k \in 1..Len(ks) |-> [key |-> ks[k],
                            pat |-> PatternMatcher(ks[k][1], ks[k][2], ks[k][3])]] :
        ks \in {f \in Texts(QueryKeys, CacheCapacity) : Injective(f)}}

PatternLists == Texts(QueryPatterns, MaxListLen)

InitAny ==
    /\ pm = NoMatcher /\ pm_text = <<>> /\ pm_result = "none"
    /\ tk_pattern = <<>> /\ tk_i = 0 /\ tk_tokens = <<>> /\ tk_pc = "idle"
    /\ th = <<>>
    /\ cache \in WarmCaches
    /\ call \in [op : {"input"}, patterns : PatternLists, name : QueryNames,
                 case_sensitive : BOOLEAN, accept_prefix : BOOLEAN,
                 result : {"none"}]

\* match_any(patterns, name, accept_prefix)
MatchAny ==
    /\ call.op = "input" /\ call.case_sensitive
    /\ LET r == MatchAnyOf(cache, call.patterns, call.name, call.accept_prefix) IN
         /\ cache' = r.cache
         /\ call' = [call EXCEPT !.op = "match_any", !.result = r.result]
    /\ UNCHANGED <<pm, pm_text, pm_result, tk_pattern, tk_i, tk_tokens, tk_pc, th>>

\* imatch_any(patterns, name, accept_prefix)
IMatchAny ==
    /\ call.op = "input" /\ ~call.case_sensitive
    /\ LET r == IMatchAnyOf(cache, call.patterns, call.name, call.accept_prefix) IN
         /\ cache' = r.cache
         /\ call' = [call EXCEPT !.op = "imatch_any", !.result = r.result]
    /\ UNCHANGED <<pm, pm_text, pm_result, tk_pattern, tk_i, tk_tokens, tk_pc, th>>

\* matcher = get_matcher(patterns, case_sensitive, accept_prefix)
GetMatcher ==
    /\ call.op = "input"
    /\ call' = [call EXCEPT !.op = "get_matcher"]
    /\ UNCHANGED <<cache, pm, pm_text, pm_result, tk_pattern, tk_i, tk_tokens, tk_pc, th>>

\* matcher(name)
CallPredicate ==
    /\ call.op = "get_matcher"
    /\ LET r == MatcherOf(cache, call.patterns, call.case_sensitive,
                          call.accept_prefix, call.name) IN
         /\ cache' = r.cache
         /\ call' = [call EXCEPT !.op = "matcher", !.result = r.result]
    /\ UNCHANGED <<pm, pm_text, pm_result, tk_pattern, tk_i, tk_tokens, tk_pc, th>>

NextAny == MatchAny \/ IMatchAny \/ GetMatcher \/ CallPredicate

SpecAny == InitAny /\ [][NextAny]_vars

\* What each pattern of the call gives on its own, freshly compiled.
Alone(cs) ==
    [k \in 1..Len(call.patterns) |->
        FreshResult(call.patterns[k], cs, call.accept_prefix, call.name)]

\* The outcome of the first pattern that does not answer False.
FirstDecisive(out) ==
    IF \A k \in DOMAIN out : out[k] = "False" THEN "False"
    ELSE out[CHOOSE k \in DOMAIN out :
                /\ out[k] # "False"
                /\ \A j \in 1..(k - 1) : out[j] = "False"]

\* C5: match_any and imatch_any give True for an empty list, and otherwise
\* True exactly when a pattern of the list matches under match (imatch) with
\* the same accept_prefix (a pattern that fails to compile before any match
\* ends the call as it ends match); the predicate of get_matcher gives what
\* match_any gives when case_sensitive is true and what imatch_any gives
\* when it is false.
C5_AnyOfPatterns ==
    (call.op \in {"match_any", "imatch_any", "matcher"}) =>
        LET cs == IF call.op = "matcher" THEN call.case_sensitive
                  ELSE call.op = "match_any"
            out == Alone(cs)
        IN  /\ (call.patterns = <<>>) => (call.result = "True")
            /\ (call.patterns # <<>>) => (call.result = FirstDecisive(out))
            /\ (call.patterns # <<>> /\ \A k \in DOMAIN out : out[k] \in {"True", "False"})
                  => (call.result = Bool(\E k \in DOMAIN out : out[k] = "True"))

\* The predicate of get_matcher, case-insensitive, has answered True on the
\* strength of the second pattern of its list.
C5_Witness ==
    /\ call.op = "matcher" /\ ~call.case_sensitive /\ call.result = "True"
    /\ Len(call.patterns) = 2
    /\ Alone(FALSE)[1] = "False" /\ Alone(FALSE)[2] = "True"
    /\ Alone(TRUE)[2] = "False"

-----------------------------------------------------------------------------
(* SpecThreads: two threads call match / imatch; a thread may be preempted  *)
(* between any two statements of the function.                              *)

Threads == {1, 2}
ThreadPatterns == { <<"a">>, <<"]">> }
ThreadNames == { <<"A">> }

Idle(result) ==
    [pc |-> "idle", args |-> <<>>, name |-> <<>>, pat |-> NoMatcher, result |-> result]

InitThreads ==
    /\ pm = NoMatcher /\ pm_text = <<>> /\ pm_result = "none"
    /\ tk_pattern = <<>> /\ tk_i = 0 /\ tk_tokens = <<>> /\ tk_pc = "idle"
    /\ cache = <<>>
    /\ call = NoCall
    /\ th = [t \in Threads |-> Idle("none")]

\* args = (pattern, True | False, accept_prefix)
ThBegin(t, args, name) ==
    /\ th[t].pc = "idle"
    /\ th' = [th EXCEPT ![t] = [pc |-> "lookup", args |-> args, name |-> name,
                                pat |-> NoMatcher, result |-> "none"]]
    /\ UNCHANGED <<cache, call, pm, pm_text, pm_result, tk_pattern, tk_i, tk_tokens, tk_pc>>

\* try: pat = _PATTERN_CACHE[args]
ThLookup(t) ==
    /\ th[t].pc = "lookup"
    /\ LET got == CacheGetItem(cache, th[t].args) IN
         /\ cache' = got.cache
         /\ th' = IF got.hit
                    THEN [th EXCEPT ![t].pc = "call", ![t].pat = got.pat]
                    ELSE [th EXCEPT ![t].pc = "compile"]
    /\ UNCHANGED <<call, pm, pm_text, pm_result, tk_pattern, tk_i, tk_tokens, tk_pc>>

\* except KeyError: pat = PatternMatcher(*args)
ThCompile(t) ==
    /\ th[t].pc = "compile"
    /\ LET pat == PatternMatcher(th[t].args[1], th[t].args[2], th[t].args[3]) IN
         th' = IF pat.status = "ok"
                 THEN [th EXCEPT ![t].pc = "insert", ![t].pat = pat]
                 ELSE [th EXCEPT ![t] = Idle(pat.status)]
    /\ UNCHANGED <<cache, call, pm, pm_text, pm_result, tk_pattern, tk_i, tk_tokens, tk_pc>>

\* _PATTERN_CACHE[args] = pat
ThInsert(t) ==
    /\ th[t].pc = "insert"
    /\ cache' = CacheSetItem(cache, th[t].args, th[t].pat)
    /\ th' = [th EXCEPT ![t].pc = "call"]
    /\ UNCHANGED <<call, pm, pm_text, pm_result, tk_pattern, tk_i, tk_tokens, tk_pc>>

\* return pat(name)
ThReturn(t) ==
    /\ th[t].pc = "call"
    /\ th' = [th EXCEPT ![t] = Idle(CallMatcher(th[t].pat, th[t].name))]
    /\ UNCHANGED <<cache, call, pm, pm_text, pm_result, tk_pattern, tk_i, tk_tokens, tk_pc>>

NextThreads ==
    \E t \in Threads :
        \/ \E p \in ThreadPatterns, n \in ThreadNames, ap \in BOOLEAN :
              ThBegin(t, MatchArgs(p, ap), n)
        \/ \E p \in ThreadPatterns, n \in ThreadNames, ap \in BOOLEAN :
              ThBegin(t, IMatchArgs(p, ap), n)
        \/ ThLookup(t)
        \/ ThCompile(t)
        \/ ThInsert(t)
        \/ ThReturn(t)

SpecThreads == InitThreads /\ [][NextThreads]_vars

\* The thread is between its lookup miss and the end of its insertion.
InCriticalSection(t) == th[t].pc \in {"compile", "insert"}

\* C9: lookup, compile-on-miss and insert of a call are one atomic critical
\* section: while a thread is between its lookup miss and its insertion no
\* other thread is, so one caller alone compiles and inserts an absent key.
C9_AtomicGetOrCompile ==
    \A t, u \in Threads : (InCriticalSection(t) /\ InCriticalSection(u)) => (t = u)

====
